---- MODULE Spec2Model ----
(***************************************************************************)
(* Model of the two request handlers of the repository:                    *)
(*   - app/tweets/queries/getTweets.ts : the paginated tweet resolver      *)
(*     (an authorization stage piped into the paginating handler);         *)
(*   - app/api/twitter.ts : the API route that looks a tweet up and then   *)
(*     its author, and emits the merged record.                            *)
(* The persistence layer, the authorization stage, the pagination helper   *)
(* and the identifier parser are collaborators that live outside the       *)
(* repository's sources; they are modelled from their documented contract. *)
(***************************************************************************)
EXTENDS Integers, Sequences, FiniteSets, TLC

\* ------------------------------------------------------------------ bounds
MaxRecords == 3     \* tweet rows the table may hold (row ids 1..MaxRecords)
MaxSkip == 2        \* largest skip a caller passes explicitly
MaxTake == 3        \* largest take a caller passes explicitly
MaxWrites == 2      \* concurrent table writes during one traversal
MaxPages == 6       \* pages a client follows in one traversal
MaxRotations == 1   \* changes of the configured token during an invocation
MaxData == 2        \* longest data array in a tweet-lookup body
MaxUrlSeq == 2      \* longest repeated url query parameter

\* ---------------------------------------------------------------- helpers
\* An optional value: <<>> is "absent" (undefined), <<v>> is the value v.
None == <<>>
Some(v) == <<v>>
Min(a, b) == IF a < b THEN a ELSE b

\* ==========================================================================
\* PaginatedTweetLister (getTweets.ts)
\* ==========================================================================
VARIABLES
    db,          \* the tweet table: the set of row ids present
    session,     \* TRUE iff the caller's session is authorized
    input,       \* the resolver's input: [where, orderBy, skip, take]
    stage,       \* index of the pipeline stage that runs next
    lpc,         \* position inside the paginating handler
    totalCount,  \* optional: what the count query returned
    items,       \* optional: what the find query returned
    page,        \* optional: the page the resolver returned
    outcome,     \* "pending" | "ok" | "unauthorized"
    dbCalls,     \* persistence operations invoked by this invocation
    stable,      \* no table write since the traversal began
    firstInput,  \* the input of the traversal's first call
    collected,   \* tweets of all pages returned so far, concatenated
    pagesFetched,\* pages returned so far
    writes,      \* table writes so far
    authPassed,  \* the authorization stage has passed in this invocation
    dbAtCount,   \* optional: the table as the count query saw it
    dbAtFind     \* optional: the table as the find query saw it

listerVars == <<db, session, input, stage, lpc, totalCount, items, page,
                outcome, dbCalls, stable, firstInput, collected,
                pagesFetched, writes, authPassed, dbAtCount, dbAtFind>>

Rows == 1..MaxRecords
Wheres == {"all", "odd", "none"}
OrderBys == {"asc", "desc"}

\* Default values of the handler's destructured parameters.
DefaultSkip == 0
DefaultTake == 100

Inputs ==
    [where : Wheres, orderBy : OrderBys,
     skip : {None} \cup {Some(n) : n \in 0..MaxSkip},
     take : {None} \cup {Some(n) : n \in 1..MaxTake}]

\* --- persistence collaborator (db.tweet) ---------------------------------
Matches(where, r) ==
    CASE where = "all" -> TRUE
      [] where = "odd" -> r % 2 = 1
      [] OTHER -> FALSE

Matching(table, where) == {r \in table : Matches(where, r)}

RECURSIVE Ascending(_)
Ascending(S) ==
    IF S = {} THEN <<>>
    ELSE LET m == CHOOSE x \in S : \A y \in S : x <= y
         IN <<m>> \o Ascending(S \ {m})

Reverse(s) == [i \in 1..Len(s) |-> s[Len(s) + 1 - i]]

Ordered(S, orderBy) ==
    IF orderBy = "asc" THEN Ascending(S) ELSE Reverse(Ascending(S))

\* db.tweet.count(args): args.where is optional (absent = no filter).
DbCount(table, args) ==
    Cardinality(IF args.where = None THEN table
                ELSE Matching(table, args.where[1]))

\* db.tweet.findMany(args): where, orderBy, skip and take are optional.
DbFindMany(table, args) ==
    LET rows == IF args.where = None THEN table
                ELSE Matching(table, args.where[1])
        all  == Ordered(rows, IF args.orderBy = None THEN "asc"
                              ELSE args.orderBy[1])
        from == IF args.skip = None THEN 0 ELSE args.skip[1]
        rest == SubSeq(all, from + 1, Len(all))
    IN IF args.take = None THEN rest
       ELSE SubSeq(rest, 1, Min(args.take[1], Len(rest)))

\* --- the handler's own code ----------------------------------------------
\* The destructured parameters with their defaults.
EffSkip(in) == IF in.skip = None THEN DefaultSkip ELSE in.skip[1]
EffTake(in) == IF in.take = None THEN DefaultTake ELSE in.take[1]

\* The skip/take handed to paginate.
PaginateArgsNoSkip(in) == [skip |-> DefaultSkip, take |-> EffTake(in)]
PaginateArgsFixedTake(in) == [skip |-> EffSkip(in), take |-> DefaultTake]
PaginateArgs(in) == [skip |-> EffSkip(in), take |-> EffTake(in)]

\* count: () => db.tweet.count({ where })
CountQueryNoFilter(table, in) == DbCount(table, [where |-> None])
CountQuery(table, in) == DbCount(table, [where |-> Some(in.where)])

\* query: (paginateArgs) => db.tweet.findMany({ ...paginateArgs, where, orderBy })
QueryFnNoSkip(table, in, pargs) ==
    DbFindMany(table, [where |-> Some(in.where), orderBy |-> Some(in.orderBy),
                       skip |-> None, take |-> Some(pargs.take)])
QueryFn(table, in, pargs) ==
    DbFindMany(table, [where |-> Some(in.where), orderBy |-> Some(in.orderBy),
                       skip |-> Some(pargs.skip), take |-> Some(pargs.take)])

\* --- pagination helper (paginate) ----------------------------------------
PaginateHasMore(pargs, its, count) == pargs.skip + Len(its) < count

PaginateNextPage(pargs, hasMore) ==
    IF hasMore THEN Some([skip |-> pargs.skip + pargs.take, take |-> pargs.take])
    ELSE None

PaginateResult(pargs, its, count) ==
    LET hasMore == PaginateHasMore(pargs, its, count)
    IN [items |-> its, hasMore |-> hasMore,
        nextPage |-> PaginateNextPage(pargs, hasMore), count |-> count]

\* The object the handler returns, built from paginate's result.
GetTweetsResultCountItems(r) ==
    [tweets |-> r.items, nextPage |-> r.nextPage, hasMore |-> r.hasMore,
     count |-> Len(r.items)]
GetTweetsResult(r) ==
    [tweets |-> r.items, nextPage |-> r.nextPage, hasMore |-> r.hasMore,
     count |-> r.count]

\* --- the resolver pipeline -----------------------------------------------
PipelineHandlerFirst == <<"getTweets", "authorize">>
Pipeline == <<"authorize", "getTweets">>

ListerInit ==
    /\ db \in SUBSET Rows
    /\ session \in BOOLEAN
    /\ input \in Inputs
    /\ stage = 1
    /\ lpc = "enter"
    /\ totalCount = None
    /\ items = None
    /\ page = None
    /\ outcome = "pending"
    /\ dbCalls = <<>>
    /\ stable = TRUE
    /\ firstInput = input
    /\ collected = <<>>
    /\ pagesFetched = 0
    /\ writes = 0
    /\ authPassed = FALSE
    /\ dbAtCount = None
    /\ dbAtFind = None

Running == outcome = "pending" /\ stage <= Len(Pipeline)

\* resolver.authorize(): rejects a caller without an authorized session,
\* passes the input through otherwise.
Authorize ==
    /\ Running
    /\ Pipeline[stage] = "authorize"
    /\ IF session
       THEN /\ stage' = stage + 1
            /\ outcome' = outcome
            /\ authPassed' = TRUE
       ELSE /\ outcome' = "unauthorized"
            /\ stage' = stage
            /\ authPassed' = authPassed
    /\ UNCHANGED <<db, session, input, lpc, totalCount, items, page, dbCalls,
                   stable, firstInput, collected, pagesFetched, writes,
                   dbAtCount, dbAtFind>>

\* paginate, step 1: the count query.
Count ==
    /\ Running
    /\ Pipeline[stage] = "getTweets"
    /\ lpc = "enter"
    /\ totalCount' = Some(CountQuery(db, input))
    /\ dbCalls' = Append(dbCalls, "count")
    /\ dbAtCount' = Some(db)
    /\ lpc' = "counted"
    /\ UNCHANGED <<db, session, input, stage, items, page, outcome, stable,
                   firstInput, collected, pagesFetched, writes, authPassed,
                   dbAtFind>>

\* paginate, step 2: the find query.
Find ==
    /\ Running
    /\ Pipeline[stage] = "getTweets"
    /\ lpc = "counted"
    /\ items' = Some(QueryFn(db, input, PaginateArgs(input)))
    /\ dbCalls' = Append(dbCalls, "find")
    /\ dbAtFind' = Some(db)
    /\ lpc' = "found"
    /\ UNCHANGED <<db, session, input, stage, totalCount, page, outcome,
                   stable, firstInput, collected, pagesFetched, writes,
                   authPassed, dbAtCount>>

\* paginate computes hasMore/nextPage; the handler returns its page.
Return ==
    /\ Running
    /\ Pipeline[stage] = "getTweets"
    /\ lpc = "found"
    /\ LET r == PaginateResult(PaginateArgs(input), items[1], totalCount[1])
           p == GetTweetsResult(r)
       IN /\ page' = Some(p)
          /\ collected' = collected \o p.tweets
    /\ pagesFetched' = pagesFetched + 1
    /\ lpc' = "returned"
    /\ stage' = stage + 1
    /\ UNCHANGED <<db, session, input, totalCount, items, outcome, dbCalls,
                   stable, firstInput, writes, authPassed, dbAtCount,
                   dbAtFind>>

\* The pipeline has run all its stages: the invocation resolves.
Resolve ==
    /\ outcome = "pending"
    /\ stage > Len(Pipeline)
    /\ outcome' = "ok"
    /\ UNCHANGED <<db, session, input, stage, lpc, totalCount, items, page,
                   dbCalls, stable, firstInput, collected, pagesFetched,
                   writes, authPassed, dbAtCount, dbAtFind>>

\* The client follows the cursor of the page it got: a new invocation with
\* the same where/orderBy and the skip/take of nextPage.
FollowCursor ==
    /\ outcome = "ok"
    /\ page # None
    /\ page[1].hasMore
    /\ page[1].nextPage # None
    /\ pagesFetched < MaxPages
    /\ input' = [input EXCEPT !.skip = Some(page[1].nextPage[1].skip),
                              !.take = Some(page[1].nextPage[1].take)]
    /\ stage' = 1
    /\ lpc' = "enter"
    /\ totalCount' = None
    /\ items' = None
    /\ page' = None
    /\ outcome' = "pending"
    /\ dbCalls' = <<>>
    /\ authPassed' = FALSE
    /\ dbAtCount' = None
    /\ dbAtFind' = None
    /\ UNCHANGED <<db, session, stable, firstInput, collected, pagesFetched,
                   writes>>

\* Another request inserts or deletes a tweet row.
DbWrite ==
    /\ writes < MaxWrites
    /\ \E r \in Rows : db' = IF r \in db THEN db \ {r} ELSE db \cup {r}
    /\ stable' = FALSE
    /\ writes' = writes + 1
    /\ UNCHANGED <<session, input, stage, lpc, totalCount, items, page,
                   outcome, dbCalls, firstInput, collected, pagesFetched,
                   authPassed, dbAtCount, dbAtFind>>

ListerStep == Authorize \/ Count \/ Find \/ Return \/ Resolve \/ FollowCursor

\* ==========================================================================
\* TweetLookupProxy (api/twitter.ts)
\* ==========================================================================
VARIABLES
    query,        \* req.query.url: absent, one string, or a sequence of strings
    envToken,     \* process.env.TWITTER_BEARER_TOKEN (optional)
    hpc,          \* the handler's position
    parserCalls,  \* arguments the identifier parser was called with
    id,           \* optional: the identifier the parser returned
    token,        \* optional: the handler's const token, once read
    tokenRead,    \* the handler has read the token
    tweetJson,    \* the tweet-lookup response, once received
    tweet,        \* optional: data[0] of the tweet-lookup body
    userJson,     \* the user-lookup response, once received
    user,         \* optional: data of the user-lookup body
    requests,     \* outbound requests issued, in order
    inflight,     \* outbound requests awaiting their response
    emitted,      \* response bodies passed to res.end
    houtcome,     \* "pending" | "done" | "failed"
    failedAt,     \* the step the invocation failed in, or "none"
    rotations     \* changes of the configured token so far

lookupVars == <<query, envToken, hpc, parserCalls, id, token, tokenRead,
                tweetJson, tweet, userJson, user, requests, inflight,
                emitted, houtcome, failedAt, rotations>>


Strings == {"", "a", "b"}
Ids == {"1", "2"}
Tokens == {"t1", "t2"}

SeqsUpTo(S, lo, hi) == UNION {[1..n -> S] : n \in lo..hi}

Queries ==
    {[kind |-> "absent", strs |-> <<>>]}
    \cup {[kind |-> "string", strs |-> <<x>>] : x \in Strings}
    \cup {[kind |-> "array", strs |-> q] : q \in SeqsUpTo(Strings, 1, MaxUrlSeq)}

\* Upstream payloads. Every field is optional: the upstream may omit it.
Tweets ==
    {[id |-> "1", author_id |-> Some("A1"), text |-> Some("T1"),
      created_at |-> Some("2020-01-01T00:00:00Z"), public_metrics |-> Some("m1")],
     [id |-> "2", author_id |-> Some("A2"), text |-> Some("T2"),
      created_at |-> Some("2021-01-01T00:00:00Z"), public_metrics |-> Some("m2")],
     [id |-> "2", author_id |-> None, text |-> None,
      created_at |-> None, public_metrics |-> None]}

Users == {[profile_image_url |-> "http://img"], [profile_image_url |-> "http://img2"]}

\* What a fetch can come back with: a rejected fetch, a body that is not
\* JSON, or a JSON body with an optional data member.
TweetResponses ==
    {[kind |-> "netfail", data |-> None], [kind |-> "nonjson", data |-> None],
     [kind |-> "json", data |-> None]}
    \cup {[kind |-> "json", data |-> Some(d)] : d \in SeqsUpTo(Tweets, 0, MaxData)}

UserResponses ==
    {[kind |-> "netfail", data |-> None], [kind |-> "nonjson", data |-> None],
     [kind |-> "json", data |-> None]}
    \cup {[kind |-> "json", data |-> Some(u)] : u \in Users}

NoResponse == [kind |-> "none", data |-> None]

\* A value or a thrown exception.
Thrown == [thrown |-> TRUE, val |-> None]
Value(v) == [thrown |-> FALSE, val |-> v]

\* Template-literal interpolation of an optional string.
Interpolate(opt) == IF opt = None THEN "undefined" ELSE opt[1]

\* req.query.url normalised to the parser's argument.
NormalizeUrlLast(q) ==
    CASE q.kind = "absent" -> ""
      [] q.kind = "array" -> q.strs[Len(q.strs)]
      [] OTHER -> q.strs[1]
NormalizeUrl(q) ==
    CASE q.kind = "absent" -> ""
      [] q.kind = "array" -> q.strs[1]
      [] OTHER -> q.strs[1]

AuthorizationHeader(tok) == [scheme |-> "Bearer", credentials |-> Interpolate(tok)]

\* The tweet-lookup request.
TweetRequest(ident, tok) ==
    [endpoint |-> "tweet", path |-> "",
     params |-> [ids |-> ident,
                 fields |-> "author_id,public_metrics,created_at"],
     authorization |-> AuthorizationHeader(tok)]

\* (await tweetResponse.json()).data[0]
ExtractTweet(resp) ==
    IF resp.kind # "json" \/ resp.data = None THEN Thrown
    ELSE IF resp.data[1] = <<>> THEN Value(None)
    ELSE Value(Some(resp.data[1][1]))

\* tweet.author_id, read while the user-lookup url is built.
AuthorIdOfLenient(tw) == IF tw = None THEN Value(None) ELSE Value(tw[1].author_id)
AuthorIdOf(tw) == IF tw = None THEN Thrown ELSE Value(tw[1].author_id)

\* The path parameter of the user-lookup url.
UserPathById(ident, author) == ident
UserPath(ident, author) == Interpolate(author)

\* The user-lookup request.
UserRequest(ident, author, tok) ==
    [endpoint |-> "user", path |-> UserPath(ident, author),
     params |-> [fields |-> "profile_image_url"],
     authorization |-> AuthorizationHeader(tok)]

\* (await userResponse.json()).data
ExtractUser(resp) ==
    IF resp.kind # "json" THEN Thrown ELSE Value(resp.data)

\* The object handed to JSON.stringify.
ResponseObjectTweetId(ident, usr, tw) ==
    [id |-> Some(tw.id), user |-> usr, text |-> tw.text,
     created_at |-> tw.created_at, public_metrics |-> tw.public_metrics]
ResponseObject(ident, usr, tw) ==
    [id |-> Some(ident), user |-> usr, text |-> tw.text,
     created_at |-> tw.created_at, public_metrics |-> tw.public_metrics]

\* JSON.stringify of an object: members whose value is undefined are left out.
Stringify(obj) ==
    [k \in {f \in DOMAIN obj : obj[f] # None} |-> obj[k][1]]

LookupInit ==
    /\ query \in Queries
    /\ envToken \in {None} \cup {Some(t) : t \in Tokens}
    /\ hpc = "parse"
    /\ parserCalls = <<>>
    /\ id = None
    /\ token = None
    /\ tokenRead = FALSE
    /\ tweetJson = NoResponse
    /\ tweet = None
    /\ userJson = NoResponse
    /\ user = None
    /\ requests = <<>>
    /\ inflight = 0
    /\ emitted = <<>>
    /\ houtcome = "pending"
    /\ failedAt = "none"
    /\ rotations = 0

Fail(step) ==
    /\ hpc' = "end"
    /\ houtcome' = "failed"
    /\ failedAt' = step

\* tweetIdParser(...): returns an identifier or throws.
ParseId ==
    /\ hpc = "parse"
    /\ parserCalls' = Append(parserCalls, NormalizeUrl(query))
    /\ \/ /\ \E i \in Ids : id' = Some(i)
          /\ hpc' = "token"
          /\ UNCHANGED <<houtcome, failedAt>>
       \/ /\ id' = id
          /\ Fail("parse")
    /\ UNCHANGED <<query, envToken, token, tokenRead, tweetJson, tweet,
                   userJson, user, requests, inflight, emitted, rotations>>

\* const token = process.env.TWITTER_BEARER_TOKEN
ReadToken ==
    /\ hpc = "token"
    /\ token' = envToken
    /\ tokenRead' = TRUE
    /\ hpc' = "fetchTweet"
    /\ UNCHANGED <<query, envToken, parserCalls, id, tweetJson, tweet,
                   userJson, user, requests, inflight, emitted, houtcome,
                   failedAt, rotations>>

\* fetch(tweet endpoint) is called.
IssueTweetRequest ==
    /\ hpc = "fetchTweet"
    /\ requests' = Append(requests, TweetRequest(id[1], token))
    /\ inflight' = inflight + 1
    /\ hpc' = "awaitTweet"
    /\ UNCHANGED <<query, envToken, parserCalls, id, token, tokenRead,
                   tweetJson, tweet, userJson, user, emitted, houtcome,
                   failedAt, rotations>>

\* The tweet-lookup fetch settles.
ReceiveTweetResponse ==
    /\ hpc = "awaitTweet"
    /\ inflight' = inflight - 1
    /\ \E resp \in TweetResponses :
         /\ tweetJson' = resp
         /\ IF resp.kind = "netfail"
            THEN Fail("tweet")
            ELSE /\ hpc' = "extractTweet"
                 /\ UNCHANGED <<houtcome, failedAt>>
    /\ UNCHANGED <<query, envToken, parserCalls, id, token, tokenRead, tweet,
                   userJson, user, requests, emitted, rotations>>

\* const tweet = (await tweetResponse.json()).data[0]
TakeTweet ==
    /\ hpc = "extractTweet"
    /\ LET r == ExtractTweet(tweetJson)
       IN IF r.thrown
          THEN /\ Fail("tweet")
               /\ tweet' = tweet
          ELSE /\ tweet' = r.val
               /\ hpc' = "fetchUser"
               /\ UNCHANGED <<houtcome, failedAt>>
    /\ UNCHANGED <<query, envToken, parserCalls, id, token, tokenRead,
                   tweetJson, userJson, user, requests, inflight, emitted,
                   rotations>>

\* The user-lookup url is built from tweet.author_id and fetch is called.
IssueUserRequest ==
    /\ hpc = "fetchUser"
    /\ LET a == AuthorIdOf(tweet)
       IN IF a.thrown
          THEN /\ Fail("tweet")
               /\ UNCHANGED <<requests, inflight>>
          ELSE /\ requests' = Append(requests, UserRequest(id[1], a.val, token))
               /\ inflight' = inflight + 1
               /\ hpc' = "awaitUser"
               /\ UNCHANGED <<houtcome, failedAt>>
    /\ UNCHANGED <<query, envToken, parserCalls, id, token, tokenRead,
                   tweetJson, tweet, userJson, user, emitted, rotations>>

\* The user-lookup fetch settles.
ReceiveUserResponse ==
    /\ hpc = "awaitUser"
    /\ inflight' = inflight - 1
    /\ \E resp \in UserResponses :
         /\ userJson' = resp
         /\ IF resp.kind = "netfail"
            THEN Fail("user")
            ELSE /\ hpc' = "extractUser"
                 /\ UNCHANGED <<houtcome, failedAt>>
    /\ UNCHANGED <<query, envToken, parserCalls, id, token, tokenRead,
                   tweetJson, tweet, user, requests, emitted, rotations>>

\* const user = (await userResponse.json()).data
TakeUser ==
    /\ hpc = "extractUser"
    /\ LET r == ExtractUser(userJson)
       IN IF r.thrown
          THEN /\ Fail("user")
               /\ user' = user
          ELSE /\ user' = r.val
               /\ hpc' = "respond"
               /\ UNCHANGED <<houtcome, failedAt>>
    /\ UNCHANGED <<query, envToken, parserCalls, id, token, tokenRead,
                   tweetJson, tweet, userJson, requests, inflight, emitted,
                   rotations>>

\* res.end(JSON.stringify({...}))
Respond ==
    /\ hpc = "respond"
    /\ IF tweet = None
       THEN /\ Fail("respond")
            /\ emitted' = emitted
       ELSE /\ emitted' =
                 Append(emitted, Stringify(ResponseObject(id[1], user, tweet[1])))
            /\ hpc' = "end"
            /\ houtcome' = "done"
            /\ failedAt' = failedAt
    /\ UNCHANGED <<query, envToken, parserCalls, id, token, tokenRead,
                   tweetJson, tweet, userJson, user, requests, inflight,
                   rotations>>

\* The process configuration is changed while the invocation runs.
RotateToken ==
    /\ rotations < MaxRotations
    /\ houtcome = "pending"
    /\ \E t \in Tokens : Some(t) # envToken /\ envToken' = Some(t)
    /\ rotations' = rotations + 1
    /\ UNCHANGED <<query, hpc, parserCalls, id, token, tokenRead, tweetJson,
                   tweet, userJson, user, requests, inflight, emitted,
                   houtcome, failedAt>>

LookupStep ==
    \/ ParseId \/ ReadToken \/ IssueTweetRequest \/ ReceiveTweetResponse
    \/ TakeTweet \/ IssueUserRequest \/ ReceiveUserResponse \/ TakeUser
    \/ Respond

\* ==========================================================================
\* Specifications
\* ==========================================================================
vars == <<listerVars, lookupVars>>

\* The component a specification does not exercise stays idle.
ListerIdle ==
    /\ db = {}
    /\ session = FALSE
    /\ input = [where |-> "all", orderBy |-> "asc", skip |-> None, take |-> None]
    /\ stage = 1
    /\ lpc = "enter"
    /\ totalCount = None
    /\ items = None
    /\ page = None
    /\ outcome = "idle"
    /\ dbCalls = <<>>
    /\ stable = TRUE
    /\ firstInput = input
    /\ collected = <<>>
    /\ pagesFetched = 0
    /\ writes = 0
    /\ authPassed = FALSE
    /\ dbAtCount = None
    /\ dbAtFind = None

LookupIdle ==
    /\ query = [kind |-> "absent", strs |-> <<>>]
    /\ envToken = None
    /\ hpc = "idle"
    /\ parserCalls = <<>>
    /\ id = None
    /\ token = None
    /\ tokenRead = FALSE
    /\ tweetJson = NoResponse
    /\ tweet = None
    /\ userJson = NoResponse
    /\ user = None
    /\ requests = <<>>
    /\ inflight = 0
    /\ emitted = <<>>
    /\ houtcome = "idle"
    /\ failedAt = "none"
    /\ rotations = 0

\* The resolver, with other requests writing to the table.
Init == ListerInit /\ LookupIdle

Next ==
    \/ Authorize /\ UNCHANGED lookupVars
    \/ Count /\ UNCHANGED lookupVars
    \/ Find /\ UNCHANGED lookupVars
    \/ Return /\ UNCHANGED lookupVars
    \/ Resolve /\ UNCHANGED lookupVars
    \/ FollowCursor /\ UNCHANGED lookupVars
    \/ DbWrite /\ UNCHANGED lookupVars

Spec == Init /\ [][Next]_vars

\* The resolver over a table nobody writes to; an invocation that can take
\* a step eventually takes it.
StableNext ==
    \/ Authorize /\ UNCHANGED lookupVars
    \/ Count /\ UNCHANGED lookupVars
    \/ Find /\ UNCHANGED lookupVars
    \/ Return /\ UNCHANGED lookupVars
    \/ Resolve /\ UNCHANGED lookupVars
    \/ FollowCursor /\ UNCHANGED lookupVars

SpecStable == Init /\ [][StableNext]_vars /\ WF_vars(StableNext)

\* The API route.
LookupSpecInit == LookupInit /\ ListerIdle

LookupNext ==
    \/ ParseId /\ UNCHANGED listerVars
    \/ ReadToken /\ UNCHANGED listerVars
    \/ IssueTweetRequest /\ UNCHANGED listerVars
    \/ ReceiveTweetResponse /\ UNCHANGED listerVars
    \/ TakeTweet /\ UNCHANGED listerVars
    \/ IssueUserRequest /\ UNCHANGED listerVars
    \/ ReceiveUserResponse /\ UNCHANGED listerVars
    \/ TakeUser /\ UNCHANGED listerVars
    \/ Respond /\ UNCHANGED listerVars
    \/ RotateToken /\ UNCHANGED listerVars

SpecLookup == LookupSpecInit /\ [][LookupNext]_vars

\* ==========================================================================
\* Properties of PaginatedTweetLister
\* ==========================================================================
\* The rows matching the filter, in the requested order.
FullResult(table, in) == Ordered(Matching(table, in.where), in.orderBy)

IsPrefix(s, t) == Len(s) <= Len(t) /\ s = SubSeq(t, 1, Len(s))

PagesNeeded(n, t) == IF n = 0 THEN 1 ELSE (n + t - 1) \div t

\* C1: in every returned page, hasMore equals
\* (skip + number of returned items < totalCount), for whatever the count
\* query returned, and when hasMore is false nextPage is null.
C1_HasMoreFormula ==
    page # None =>
        /\ page[1].hasMore =
             (EffSkip(input) + Len(page[1].tweets) < totalCount[1])
        /\ (~page[1].hasMore => page[1].nextPage = None)

\* C1 witness: a page with hasMore false at a positive skip, and one whose
\* count was taken before a concurrent write changed the table.
C1_Witness ==
    /\ page # None
    /\ EffSkip(input) > 0
    /\ ~page[1].hasMore
    /\ Len(page[1].tweets) > 0
    /\ dbAtCount # dbAtFind

\* C2: whenever hasMore is true, nextPage is the cursor
\* {skip: skip + take, take: take} of the current call.
C2_NextPageCursor ==
    (page # None /\ page[1].hasMore) =>
        page[1].nextPage =
            Some([skip |-> EffSkip(input) + EffTake(input),
                  take |-> EffTake(input)])

\* C2 witness: a page with hasMore true that returned fewer items than take,
\* so skip + take differs from skip + items returned.
C2_Witness ==
    /\ page # None
    /\ page[1].hasMore
    /\ Len(page[1].tweets) < EffTake(input)
    /\ EffSkip(input) > 0

\* C3: for an unauthorized caller neither count nor find is ever invoked and
\* the invocation can only end "unauthorized"; count and find are invoked
\* only after the authorization stage has passed.
C3_AuthorizationGate ==
    /\ (~session =>
          /\ dbCalls = <<>>
          /\ page = None
          /\ outcome \in {"pending", "unauthorized"}
          /\ (outcome = "pending" => ENABLED Authorize))
    /\ (dbCalls # <<>> => session /\ authPassed)

\* C3 witness: an unauthorized caller's invocation has ended.
C3_Witness == ~session /\ outcome = "unauthorized" /\ db # {}

\* C4: if find returns fewer than take items, hasMore is false, provided the
\* count and the find saw the same table.
C4_ShortPageIsLast ==
    (page # None /\ dbAtCount = dbAtFind
       /\ Len(page[1].tweets) < EffTake(input)) => ~page[1].hasMore

\* C4 witness: a short, non-empty page over an unchanged table.
C4_Witness ==
    /\ page # None
    /\ dbAtCount = dbAtFind
    /\ Len(page[1].tweets) < EffTake(input)
    /\ Len(page[1].tweets) > 0
    /\ input.take # None

\* C5: the page's count is the number of rows matching the filter in the
\* table the count query saw; over an unchanged table it is that same number
\* on every page of the traversal, whatever skip and take are.
C5_CountIsFilterCount ==
    page # None =>
        /\ page[1].count = Cardinality(Matching(dbAtCount[1], input.where))
        /\ (stable =>
              page[1].count = Cardinality(Matching(db, firstInput.where)))

\* C5 witness: a later page of a traversal, returning fewer rows than match.
C5_Witness ==
    /\ page # None
    /\ stable
    /\ pagesFetched > 1
    /\ Len(page[1].tweets) < page[1].count

TraversalFromZero == EffSkip(firstInput) = 0

Finished ==
    \/ outcome = "unauthorized"
    \/ outcome = "ok" /\ page # None /\ ~page[1].hasMore

\* C10: over an unchanging table, a traversal from skip 0 that follows
\* nextPage while hasMore is true returns, page after page, a growing prefix
\* of the full ordered result, ends with exactly the full result after the
\* number of pages the result needs, and does end.
C10_TraversalSafe ==
    (TraversalFromZero /\ stable) =>
        /\ IsPrefix(collected, FullResult(db, firstInput))
        /\ (page # None /\ page[1].hasMore =>
              /\ Len(collected) < Len(FullResult(db, firstInput))
              /\ page[1].nextPage # None)
        /\ (page # None /\ ~page[1].hasMore =>
              /\ collected = FullResult(db, firstInput)
              /\ page[1].nextPage = None
              /\ pagesFetched =
                   PagesNeeded(Len(FullResult(db, firstInput)),
                               EffTake(firstInput)))

C10_Traversal == [](C10_TraversalSafe) /\ <>(Finished)

\* C10 witness: a traversal of three pages has delivered the whole result.
C10_Witness ==
    /\ TraversalFromZero /\ stable
    /\ outcome = "ok" /\ page # None /\ ~page[1].hasMore
    /\ pagesFetched >= 3
    /\ collected = FullResult(db, firstInput)

\* ==========================================================================
\* Properties of TweetLookupProxy
\* ==========================================================================
\* C6: the identifier parser is called exactly once per invocation, with ""
\* when url is absent, with the first element when url is a sequence of
\* strings, and with url itself when it is a single string.
C6_ParserArgument ==
    /\ Len(parserCalls) <= 1
    /\ (hpc # "parse" =>
          /\ Len(parserCalls) = 1
          /\ (query.kind = "absent" => parserCalls[1] = "")
          /\ (query.kind = "array" => parserCalls[1] = query.strs[1])
          /\ (query.kind = "string" => parserCalls[1] = query.strs[1]))

\* C6 witness: the parser has been called for a repeated url parameter whose
\* first and last elements differ.
C6_Witness ==
    /\ hpc = "end"
    /\ query.kind = "array"
    /\ Len(query.strs) > 1
    /\ query.strs[1] # query.strs[Len(query.strs)]
    /\ parserCalls = <<query.strs[1]>>

\* The first element of the tweet-lookup body's data array.
FirstTweet == tweetJson.data[1][1]

Member(body, k, opt) ==
    IF opt = None THEN k \notin DOMAIN body
    ELSE k \in DOMAIN body /\ body[k] = opt[1]

\* C7: when both upstream calls succeed exactly one body is emitted; its id
\* is the parsed identifier, its user is the data of the user-lookup body and
\* its text, created_at and public_metrics are those of data[0] of the
\* tweet-lookup body (a member the upstream left out is left out).
C7_ResponseBody ==
    /\ Len(emitted) <= 1
    /\ (emitted # <<>> => houtcome = "done")
    /\ (houtcome = "done" =>
          /\ Len(emitted) = 1
          /\ Member(emitted[1], "id", id)
          /\ Member(emitted[1], "user", userJson.data)
          /\ Member(emitted[1], "text", FirstTweet.text)
          /\ Member(emitted[1], "created_at", FirstTweet.created_at)
          /\ Member(emitted[1], "public_metrics", FirstTweet.public_metrics)
          /\ DOMAIN emitted[1] \subseteq
               {"id", "user", "text", "created_at", "public_metrics"})

\* C7 witness: a body emitted for a tweet whose upstream id differs from the
\* parsed identifier, out of a data array whose later element differs.
C7_Witness ==
    /\ houtcome = "done"
    /\ FirstTweet.id # id[1]
    /\ Len(tweetJson.data[1]) > 1
    /\ tweetJson.data[1][2] # FirstTweet
    /\ "user" \in DOMAIN emitted[1]
    /\ "text" \in DOMAIN emitted[1]

\* C8: at most one request is outstanding at a time; the first request is
\* the tweet lookup for the parsed identifier; the user lookup is issued only
\* once the tweet response has arrived and data[0] is taken, its path is that
\* tweet's author_id, it carries the tweet lookup's authorization; a
\* successful invocation has issued exactly these two requests.
C8_SequentialRequests ==
    /\ inflight <= 1
    /\ Len(requests) <= 2
    /\ (Len(requests) >= 1 =>
          /\ requests[1].endpoint = "tweet"
          /\ requests[1].params.ids = id[1]
          /\ tokenRead
          /\ requests[1].authorization.credentials = Interpolate(token))
    /\ (Len(requests) = 2 =>
          /\ requests[2].endpoint = "user"
          /\ tweetJson.kind = "json"
          /\ tweet = Some(FirstTweet)
          /\ requests[2].path = Interpolate(FirstTweet.author_id)
          /\ requests[2].authorization = requests[1].authorization)
    /\ (houtcome = "done" => Len(requests) = 2)

\* C8 witness: a successful invocation during which the configured token
\* changed after the handler read it, for a tweet whose author_id is not the
\* parsed identifier.
C8_Witness ==
    /\ houtcome = "done"
    /\ Len(requests) = 2
    /\ envToken # token
    /\ requests[2].path = "A1"

TweetStepFails ==
    \/ tweetJson.kind \in {"netfail", "nonjson"}
    \/ tweetJson.kind = "json" /\ tweetJson.data = None
    \/ tweetJson.kind = "json" /\ tweetJson.data # None /\ tweetJson.data[1] = <<>>

UserStepFails == userJson.kind \in {"netfail", "nonjson"}

RequestsTo(e) == Cardinality({i \in 1..Len(requests) : requests[i].endpoint = e})

\* C9: a failed upstream call (a rejected fetch, a body that is not JSON) or
\* a tweet-lookup body without data[0] ends the invocation in failure with no
\* body emitted; no request is issued twice; after a failure of the
\* tweet-lookup step no user-lookup request is issued.
C9_FailureHandling ==
    /\ RequestsTo("tweet") <= 1
    /\ RequestsTo("user") <= 1
    /\ (houtcome = "failed" => emitted = <<>>)
    /\ ((TweetStepFails \/ UserStepFails) =>
          /\ emitted = <<>>
          /\ houtcome \in {"pending", "failed"}
          /\ (hpc = "end" => houtcome = "failed"))
    /\ (TweetStepFails => RequestsTo("user") = 0 /\ failedAt \in {"none", "tweet"})
    /\ (failedAt = "tweet" => RequestsTo("user") = 0)

\* C9 witness: the invocation failed on a tweet-lookup body whose data array
\* is empty.
C9_Witness ==
    /\ houtcome = "failed"
    /\ failedAt = "tweet"
    /\ tweetJson.kind = "json"
    /\ tweetJson.data = Some(<<>>)

====
